---- MODULE Spec2Model ----
(***************************************************************************)
(* Model of mopidy_spotify/playback.py: the audio delivery bridge between  *)
(* the libspotify delivery thread (music_delivery_callback), the pyspotify *)
(* event loop (end_of_track_callback), the GStreamer thread (need_data,    *)
(* enough_data and seek_data callbacks) and the backend actor thread       *)
(* (change_track, on_seek_data).  Each thread has a program counter named  *)
(* after the source line it is about to execute; one step of a thread      *)
(* touches at most one shared object, as the source does.                  *)
(***************************************************************************)
EXTENDS Integers, Sequences, FiniteSets, TLC

\* ------------------------------------------------------------------ bounds
MaxCalls      == 5      \* calls made from outside in one behaviour: chunk
                        \* deliveries, change_track calls, seek requests of
                        \* the sink and END_OF_TRACK events, all together
ChunkFrames   == 441    \* frame count of a non-empty chunk
SeekMs        == 7      \* the non-zero seek target, in milliseconds

\* ------------------------------------------------------- program constants
SampleRate == 44100     \* GST_CAPS rate
GstSecondQuot == 22675  \* Gst.SECOND \div SampleRate
GstSecondRem  == 32500  \* Gst.SECOND % SampleRate
GstMSecond == 1000000   \* Gst.MSECOND, clock ticks in a millisecond

VARIABLES
    \* SpotifyPlaybackProvider fields
    buffer_timestamp,       \* self._buffer_timestamp._value
    seeking_event,          \* self._seeking_event
    first_seek,             \* self._first_seek
    push_audio_data_event,  \* self._push_audio_data_event
    end_of_track_event,     \* self._end_of_track_event
    events_connected,       \* self._events_connected
    held_buffers,           \* self._held_buffers
    \* backend actor thread
    actor_pc, time_position, mailbox, ct_ret,
    \* libspotify delivery thread
    md_pc, num_frames, buffer_, buf, consumed, md_ret, md_exit,
    \* pyspotify event loop
    et_pc,
    \* collaborators: the sink (mopidy.audio) and the decoder session
    appsrc_set, sink, player, player_seek, dec_pending,
    \* history
    n_calls,
    eot_fired, eos_pushed, life_unloads, seeks_handled, last_acc, rejected,
    straddle, scen, stale, pending

prog_vars == <<buffer_timestamp, seeking_event, first_seek, push_audio_data_event,
               end_of_track_event, events_connected, held_buffers>>
actor_vars == <<actor_pc, time_position, mailbox, ct_ret>>
md_vars == <<md_pc, num_frames, buffer_, buf, consumed, md_ret, md_exit>>
env_vars == <<appsrc_set, sink, player, player_seek, dec_pending>>
hist_vars == <<n_calls, eot_fired, eos_pushed,
               life_unloads, seeks_handled, last_acc, rejected, straddle,
               scen, stale, pending>>
vars == <<prog_vars, actor_vars, md_vars, et_pc, env_vars, hist_vars>>

\* ----------------------------------------------------------------- values
NoBuffer == [id |-> 0, ts |-> 0, dur |-> 0]
EndOfStream == [id |-> -1, ts |-> 0, dur |-> 0]

\* The ids of the buffers a delivery call in progress holds in its locals
\* buffer_ and buf: the buffers that outlive a clear() of _held_buffers.
InFlight == {buffer_.id, buf.id} \ {NoBuffer.id}

\* One emit_data call as the sink sees it: the buffer, and the sink's answer.
emit_data(b, accepted) == [b |-> b, ok |-> accepted]
FrameCounts == {0, ChunkFrames}

\* History of the gapless scenario: a load that completed with nothing else
\* in progress ("chunks", n chunks accepted so far), then the empty terminal
\* chunk ("ended"), then the end-of-stream ("eos"); "off" once anything else
\* happened (a seek request, a closed gate, a refusing sink, another load).
ScenOff == [phase |-> "off", n |-> 0]
SeekTargets == {0, SeekMs}

\* audio.calculate_duration(num_frames, sample_rate):
\* Gst.util_uint64_scale(num_frames, Gst.SECOND, sample_rate), rounded down.
calculate_duration(n) ==
    n * GstSecondQuot + ((n * GstSecondRem) \div SampleRate)

\* audio.millisecond_to_clocktime(value): value * Gst.MSECOND
millisecond_to_clocktime(ms) == ms * GstMSecond

\* audio.create_buffer(data, timestamp, duration); id names the delivery call
create_buffer(id, timestamp, duration) ==
    [id |-> id, ts |-> timestamp, dur |-> duration]

Init ==
    /\ buffer_timestamp = 0
    /\ seeking_event = FALSE
    /\ first_seek = FALSE
    /\ push_audio_data_event = TRUE
    /\ end_of_track_event = FALSE
    /\ events_connected = FALSE
    /\ held_buffers = <<>>
    /\ actor_pc = "idle" /\ time_position = 0 /\ mailbox = <<>> /\ ct_ret = "none"
    /\ md_pc = "idle" /\ num_frames = 0
    /\ buffer_ = NoBuffer /\ buf = NoBuffer /\ consumed = "unbound"
    /\ md_ret = -1 /\ md_exit = "none"
    /\ et_pc = "idle"
    /\ appsrc_set = FALSE /\ sink = <<>> /\ player = 0 /\ player_seek = -1
    /\ dec_pending = 0
    /\ n_calls = 0
    /\ eot_fired = 0 /\ eos_pushed = 0 /\ life_unloads = 0 /\ seeks_handled = 0
    /\ last_acc = [kind |-> "none", ts |-> 0, dur |-> 0]
    /\ rejected = NoBuffer
    /\ straddle = FALSE
    /\ scen = ScenOff
    /\ stale = {}
    /\ pending = <<>>

\* ------------------------------------------- libspotify delivery thread
\* What a delivery call leaves behind when it returns or raises; md_exit
\* names the return statement or the exception that ended the call.
MDReturn(value, exit) ==
    /\ md_pc' = "idle"
    /\ md_ret' = value
    /\ md_exit' = exit
    /\ buffer_' = NoBuffer /\ buf' = NoBuffer /\ consumed' = "unbound"

MDRaise(exc) ==
    /\ md_pc' = "idle"
    /\ md_ret' = -1
    /\ md_exit' = exc
    /\ buffer_' = NoBuffer /\ buf' = NoBuffer /\ consumed' = "unbound"

\* MD_L182 clearing the seeking event on any chunk, not only an empty one.
MD_L182_AnyChunkClears(n) ==
    /\ UNCHANGED <<stale, pending>>
    /\ md_pc = "idle"
    /\ events_connected
    /\ player # 0
    /\ n_calls < MaxCalls
    /\ n_calls' = n_calls + 1
    /\ num_frames' = n
    /\ IF seeking_event
         THEN /\ seeking_event' = FALSE
              /\ MDReturn(n, "seek")
         ELSE /\ md_pc' = "L191"
              /\ UNCHANGED <<seeking_event, md_ret, md_exit, buffer_, buf, consumed>>
    /\ scen' = (IF scen.phase \in {"ended", "eos"} \/ seeking_event
                 THEN ScenOff ELSE scen)
    /\ UNCHANGED straddle
    /\ UNCHANGED <<buffer_timestamp, first_seek, push_audio_data_event,
                   end_of_track_event, events_connected, held_buffers,
                   actor_vars, et_pc, appsrc_set, sink, player, player_seek,
                   eot_fired, eos_pushed,
                   life_unloads, seeks_handled, last_acc, rejected>>
    /\ dec_pending' = (IF n = 0 /\ dec_pending > 0 THEN dec_pending - 1
                                                   ELSE dec_pending)

\* MD_L182 returning 0 for a chunk discarded while the seeking event is set,
\* as the other branches that take no frames do.
MD_L182_SeekReturnsZero(n) ==
    /\ UNCHANGED <<stale, pending>>
    /\ md_pc = "idle"
    /\ events_connected
    /\ player # 0
    /\ n_calls < MaxCalls
    /\ n_calls' = n_calls + 1
    /\ num_frames' = n
    /\ IF seeking_event
         THEN /\ seeking_event' = (IF n = 0 THEN FALSE ELSE seeking_event)
              /\ MDReturn(0, "seek")
         ELSE /\ md_pc' = "L191"
              /\ UNCHANGED <<seeking_event, md_ret, md_exit, buffer_, buf, consumed>>
    /\ scen' = (IF scen.phase \in {"ended", "eos"} \/ seeking_event
                 THEN ScenOff ELSE scen)
    /\ UNCHANGED straddle
    /\ UNCHANGED <<buffer_timestamp, first_seek, push_audio_data_event,
                   end_of_track_event, events_connected, held_buffers,
                   actor_vars, et_pc, appsrc_set, sink, player, player_seek,
                   eot_fired, eos_pushed,
                   life_unloads, seeks_handled, last_acc, rejected>>
    /\ dec_pending' = (IF n = 0 /\ dec_pending > 0 THEN dec_pending - 1
                                                   ELSE dec_pending)

\* The decoder calls music_delivery_callback (registered by _connect_events)
\* with a chunk of n frames; lines 182-189, the seek check.
MD_L182(n) ==
    /\ UNCHANGED <<stale, pending>>
    /\ md_pc = "idle"
    /\ events_connected
    /\ player # 0
    /\ n_calls < MaxCalls
    /\ n_calls' = n_calls + 1
    /\ num_frames' = n
    /\ IF seeking_event
         THEN /\ seeking_event' = (IF n = 0 THEN FALSE ELSE seeking_event)
              /\ MDReturn(n, "seek")
         ELSE /\ md_pc' = "L191"
              /\ UNCHANGED <<seeking_event, md_ret, md_exit, buffer_, buf, consumed>>
    /\ scen' = (IF scen.phase \in {"ended", "eos"} \/ seeking_event
                 THEN ScenOff ELSE scen)
    /\ UNCHANGED straddle
    /\ UNCHANGED <<buffer_timestamp, first_seek, push_audio_data_event,
                   end_of_track_event, events_connected, held_buffers,
                   actor_vars, et_pc, appsrc_set, sink, player, player_seek,
                   eot_fired, eos_pushed,
                   life_unloads, seeks_handled, last_acc, rejected>>
    /\ dec_pending' = (IF n = 0 /\ dec_pending > 0 THEN dec_pending - 1
                                                   ELSE dec_pending)

\* The decoder answers a seek it has received, while its track is loaded,
\* with a call of music_delivery_callback with an empty chunk: lines 182-189
\* as in MD_L182(0). The answer is owed by the decoder, so it is not counted
\* in n_calls.
MD_L182_Confirm ==
    /\ UNCHANGED <<stale, pending>>
    /\ md_pc = "idle"
    /\ events_connected
    /\ player # 0
    /\ dec_pending > 0
    /\ dec_pending' = dec_pending - 1
    /\ num_frames' = 0
    /\ IF seeking_event
         THEN /\ seeking_event' = FALSE
              /\ MDReturn(0, "seek")
         ELSE /\ md_pc' = "L191"
              /\ UNCHANGED <<seeking_event, md_ret, md_exit, buffer_, buf, consumed>>
    /\ scen' = (IF scen.phase \in {"ended", "eos"} \/ seeking_event
                 THEN ScenOff ELSE scen)
    /\ UNCHANGED <<buffer_timestamp, first_seek, push_audio_data_event,
                   end_of_track_event, events_connected, held_buffers,
                   actor_vars, et_pc, appsrc_set, sink, player, player_seek,
                   n_calls, eot_fired, eos_pushed,
                   life_unloads, seeks_handled, last_acc, rejected, straddle>>

\* MD_L191 without the check of push_audio_data_event at line 191.
MD_L191_NoGate(fmt) ==
    /\ UNCHANGED <<stale, pending>>
    /\ md_pc = "L191"
    /\ IF num_frames = 0 THEN MDReturn(0, "empty")
       ELSE IF ~fmt THEN MDRaise("AssertionError")
       ELSE /\ md_pc' = "L202"
            /\ UNCHANGED <<md_ret, md_exit, buffer_, buf, consumed>>
    /\ scen' = (IF scen.phase # "chunks" THEN scen
                ELSE IF num_frames = 0
                  THEN (IF scen.n >= 1 THEN [scen EXCEPT !.phase = "ended"]
                                       ELSE ScenOff)
                ELSE IF ~fmt THEN ScenOff
                ELSE scen)
    /\ UNCHANGED <<prog_vars, actor_vars, num_frames, et_pc,
                   env_vars, n_calls, eot_fired, eos_pushed, life_unloads,
                   seeks_handled, last_acc, rejected, straddle>>

\* Lines 191-200: the gate check, the empty-chunk check (frames is empty
\* exactly when num_frames is 0), and the assertion on
\* audio_format.sample_type (fmt: whether it is INT16_NATIVE_ENDIAN).
MD_L191(fmt) ==
    /\ UNCHANGED <<stale, pending>>
    /\ md_pc = "L191"
    /\ IF ~push_audio_data_event THEN MDReturn(0, "gate")
       ELSE IF num_frames = 0 THEN MDReturn(0, "empty")
       ELSE IF ~fmt THEN MDRaise("AssertionError")
       ELSE /\ md_pc' = "L202"
            /\ UNCHANGED <<md_ret, md_exit, buffer_, buf, consumed>>
    /\ scen' = (IF scen.phase # "chunks" THEN scen
                ELSE IF ~push_audio_data_event THEN ScenOff
                ELSE IF num_frames = 0
                  THEN (IF scen.n >= 1 THEN [scen EXCEPT !.phase = "ended"]
                                       ELSE ScenOff)
                ELSE IF ~fmt THEN ScenOff
                ELSE scen)
    /\ UNCHANGED <<prog_vars, actor_vars, num_frames, et_pc,
                   env_vars, n_calls, eot_fired, eos_pushed, life_unloads,
                   seeks_handled, last_acc, rejected, straddle>>

\* Lines 202-205: duration, and the buffer stamped with buffer_timestamp.get().
MD_L202 ==
    /\ md_pc = "L202"
    /\ buffer_' = create_buffer(n_calls, buffer_timestamp,
                                calculate_duration(num_frames))
    /\ md_pc' = "L208"
    /\ UNCHANGED <<prog_vars, actor_vars, num_frames, buf,
                   consumed, md_ret, md_exit, et_pc, env_vars, hist_vars>>

\* Line 208 (if held_buffers) and lines 215-217 (else: consumed = True).
MD_L208 ==
    /\ md_pc = "L208"
    /\ IF held_buffers # <<>>
         THEN md_pc' = "L209" /\ UNCHANGED consumed
         ELSE md_pc' = "L219" /\ consumed' = "true"
    /\ UNCHANGED <<prog_vars, actor_vars, num_frames, buffer_,
                   buf, md_ret, md_exit, et_pc, env_vars, hist_vars>>

\* Line 209: while held_buffers.
MD_L209 ==
    /\ md_pc = "L209"
    /\ md_pc' = (IF held_buffers # <<>> THEN "L210" ELSE "L219")
    /\ UNCHANGED <<prog_vars, actor_vars, num_frames, buffer_,
                   buf, consumed, md_ret, md_exit, et_pc, env_vars, hist_vars>>

\* Line 210: buf = held_buffers.popleft(); IndexError on an empty deque.
MD_L210 ==
    /\ md_pc = "L210"
    /\ IF held_buffers = <<>>
         THEN /\ MDRaise("IndexError")
              /\ UNCHANGED held_buffers
         ELSE /\ buf' = Head(held_buffers)
              /\ held_buffers' = Tail(held_buffers)
              /\ md_pc' = "L211"
              /\ UNCHANGED <<buffer_, consumed, md_ret, md_exit>>
    /\ UNCHANGED <<buffer_timestamp, seeking_event, first_seek,
                   push_audio_data_event, end_of_track_event, events_connected,
                   actor_vars, num_frames, et_pc, env_vars,
                   hist_vars>>

\* Lines 211-212: consumed = audio_actor.emit_data(buf).get(); the sink
\* answers, and a consumed buffer sends the loop back to line 209.
MD_L211(accepted) ==
    /\ pending' = (IF accepted /\ pending # <<>> THEN Tail(pending) ELSE pending)
    /\ UNCHANGED <<stale, dec_pending>>
    /\ md_pc = "L211"
    /\ sink' = Append(sink, emit_data(buf, accepted))
    /\ consumed' = (IF accepted THEN "true" ELSE "false")
    /\ md_pc' = (IF accepted THEN "L209" ELSE "L213")
    /\ scen' = (IF accepted THEN scen ELSE ScenOff)
    /\ rejected' = NoBuffer
    /\ UNCHANGED <<prog_vars, actor_vars, num_frames, buffer_, buf, md_ret,
                   md_exit, et_pc, appsrc_set, player, player_seek, n_calls, eot_fired, eos_pushed, life_unloads,
                   seeks_handled, last_acc, straddle>>

\* MD_L213 without the appendleft of line 213: the refused buffer is lost.
MD_L213_NotPutBack ==
    /\ UNCHANGED <<stale, pending>>
    /\ md_pc = "L213"
    /\ held_buffers' = held_buffers
    /\ rejected' = buf
    /\ md_pc' = "L219"
    /\ UNCHANGED <<straddle, scen>>
    /\ UNCHANGED <<buffer_timestamp, seeking_event, first_seek,
                   push_audio_data_event, end_of_track_event, events_connected,
                   actor_vars, num_frames, buffer_, buf, consumed, md_ret,
                   md_exit, et_pc, env_vars,
                   n_calls, eot_fired, eos_pushed,
                   life_unloads, seeks_handled, last_acc>>

\* Lines 213-214: held_buffers.appendleft(buf); break.
MD_L213 ==
    /\ UNCHANGED <<stale, pending>>
    /\ md_pc = "L213"
    /\ held_buffers' = <<buf>> \o held_buffers
    /\ rejected' = buf
    /\ md_pc' = "L219"
    /\ UNCHANGED <<straddle, scen>>
    /\ UNCHANGED <<buffer_timestamp, seeking_event, first_seek,
                   push_audio_data_event, end_of_track_event, events_connected,
                   actor_vars, num_frames, buffer_, buf, consumed, md_ret,
                   md_exit, et_pc, env_vars,
                   n_calls, eot_fired, eos_pushed,
                   life_unloads, seeks_handled, last_acc>>

\* MD_L219 taking the new buffer whatever the sink answered: lines 219-221
\* without the test of consumed.
MD_L219_IgnoresBackpressure ==
    /\ md_pc = "L219"
    /\ IF consumed = "unbound"
         THEN /\ MDRaise("UnboundLocalError")
              /\ UNCHANGED <<held_buffers, pending>>
         ELSE /\ held_buffers' = Append(held_buffers, buffer_)
              /\ pending' = Append(pending, buffer_.id)
              /\ md_pc' = "L222"
              /\ UNCHANGED <<buffer_, buf, consumed, md_ret, md_exit>>
    /\ UNCHANGED <<buffer_timestamp, seeking_event, first_seek,
                   push_audio_data_event, end_of_track_event, events_connected,
                   actor_vars, num_frames, et_pc, env_vars,
                   n_calls, eot_fired, eos_pushed, life_unloads,
                   seeks_handled, last_acc, rejected, straddle, scen, stale>>

\* Lines 219-221 and 224-226: take the new buffer, or pass back-pressure on.
\* consumed is unbound when line 208 saw a buffer and line 209 saw none.
MD_L219 ==
    /\ md_pc = "L219"
    /\ IF consumed = "unbound"
         THEN /\ MDRaise("UnboundLocalError")
              /\ UNCHANGED held_buffers
       ELSE IF consumed = "true"
         THEN /\ held_buffers' = Append(held_buffers, buffer_)
              /\ md_pc' = "L222"
              /\ UNCHANGED <<buffer_, buf, consumed, md_ret, md_exit>>
         ELSE /\ MDReturn(0, "backpressure")
              /\ UNCHANGED held_buffers
    /\ pending' = (IF consumed = "true" THEN Append(pending, buffer_.id)
                                        ELSE pending)
    /\ UNCHANGED <<buffer_timestamp, seeking_event, first_seek,
                   push_audio_data_event, end_of_track_event, events_connected,
                   actor_vars, num_frames, et_pc, env_vars,
                   n_calls, eot_fired, eos_pushed, life_unloads,
                   seeks_handled, last_acc, rejected, straddle, scen, stale>>

\* MD_L222 with set(timestamp + duration) on the value read at line 205
\* in place of the atomic increase(duration) of line 222.
MD_L222_SetFromRead ==
    /\ UNCHANGED <<stale, pending>>
    /\ md_pc = "L222"
    /\ buffer_timestamp' = buffer_.ts + buffer_.dur
    /\ last_acc' = [kind |-> "buf", ts |-> buffer_.ts, dur |-> buffer_.dur]
    /\ MDReturn(num_frames, "accepted")
    /\ scen' = (IF scen.phase = "chunks" THEN [scen EXCEPT !.n = @ + 1]
                                         ELSE scen)
    /\ UNCHANGED straddle
    /\ UNCHANGED <<seeking_event, first_seek, push_audio_data_event,
                   end_of_track_event, events_connected, held_buffers,
                   actor_vars, num_frames, et_pc, env_vars,
                   n_calls, eot_fired, eos_pushed,
                   life_unloads, seeks_handled, rejected>>

\* Lines 222-223: buffer_timestamp.increase(duration); return num_frames.
MD_L222 ==
    /\ UNCHANGED <<stale, pending>>
    /\ md_pc = "L222"
    /\ buffer_timestamp' = buffer_timestamp + buffer_.dur
    /\ last_acc' = [kind |-> "buf", ts |-> buffer_.ts, dur |-> buffer_.dur]
    /\ MDReturn(num_frames, "accepted")
    /\ scen' = (IF scen.phase = "chunks" THEN [scen EXCEPT !.n = @ + 1]
                                         ELSE scen)
    /\ UNCHANGED straddle
    /\ UNCHANGED <<seeking_event, first_seek, push_audio_data_event,
                   end_of_track_event, events_connected, held_buffers,
                   actor_vars, num_frames, et_pc, env_vars,
                   n_calls, eot_fired, eos_pushed,
                   life_unloads, seeks_handled, rejected>>

music_delivery_callback ==
    \/ \E n \in FrameCounts : MD_L182(n)
    \/ \E fmt \in BOOLEAN : MD_L191(fmt)
    \/ MD_L202
    \/ MD_L208
    \/ MD_L209
    \/ MD_L210
    \/ \E accepted \in BOOLEAN : MD_L211(accepted)
    \/ MD_L213
    \/ MD_L219
    \/ MD_L222

\* ------------------------------------------------ backend actor thread
\* change_track, lines 56-60: _connect_events(), and the track.uri check.
CT_L56(has_uri) ==
    /\ UNCHANGED <<stale, pending>>
    /\ actor_pc = "idle"
    /\ n_calls < MaxCalls
    /\ n_calls' = n_calls + 1
    /\ events_connected' = TRUE
    /\ IF has_uri
         THEN actor_pc' = "L78" /\ ct_ret' = "none"
         ELSE actor_pc' = "idle" /\ ct_ret' = "False"
    /\ scen' = ScenOff
    /\ UNCHANGED straddle
    /\ UNCHANGED <<buffer_timestamp, seeking_event, first_seek,
                   push_audio_data_event, end_of_track_event, held_buffers,
                   time_position, mailbox, md_vars, et_pc, env_vars,
                   eot_fired, eos_pushed,
                   life_unloads, seeks_handled, last_acc, rejected>>

\* Lines 78-79: self._buffer_timestamp.set(0); self._first_seek = True.
CT_L78 ==
    /\ UNCHANGED <<stale, pending>>
    /\ actor_pc = "L78"
    /\ buffer_timestamp' = 0
    /\ first_seek' = TRUE
    /\ last_acc' = [kind |-> "load", ts |-> 0, dur |-> 0]
    /\ seeks_handled' = 0
    /\ actor_pc' = "L80"
    /\ UNCHANGED <<straddle, scen>>
    /\ UNCHANGED <<seeking_event, push_audio_data_event, end_of_track_event,
                   events_connected, held_buffers, time_position, mailbox,
                   ct_ret, md_vars, et_pc, env_vars,
                   n_calls, eot_fired, eos_pushed,
                   life_unloads, rejected>>

\* Line 80: self._end_of_track_event.clear(); a new track lifecycle begins.
CT_L80 ==
    /\ UNCHANGED <<stale, pending>>
    /\ actor_pc = "L80"
    /\ end_of_track_event' = FALSE
    /\ eot_fired' = 0 /\ eos_pushed' = 0 /\ life_unloads' = 0
    /\ actor_pc' = "L83"
    /\ straddle' = (et_pc # "idle")
    /\ UNCHANGED scen
    /\ UNCHANGED <<buffer_timestamp, seeking_event, first_seek,
                   push_audio_data_event, events_connected, held_buffers,
                   time_position, mailbox, ct_ret, md_vars, et_pc, env_vars,
                   n_calls, seeks_handled, last_acc,
                   rejected>>

\* Line 83: self._held_buffers.clear().
CT_L83 ==
    /\ actor_pc = "L83"
    /\ held_buffers' = <<>>
    /\ rejected' = NoBuffer
    /\ stale' = InFlight
    /\ pending' = <<>>
    /\ actor_pc' = "L86"
    /\ UNCHANGED <<straddle, scen>>
    /\ UNCHANGED <<buffer_timestamp, seeking_event, first_seek,
                   push_audio_data_event, end_of_track_event, events_connected,
                   time_position, mailbox, ct_ret, md_vars, et_pc, env_vars,
                   n_calls, eot_fired, eos_pushed,
                   life_unloads, seeks_handled, last_acc>>

\* Lines 86-87: session.get_track(uri), sp_track.load(timeout); a
\* spotify.Error (a timeout is one) is caught at lines 104-106.
CT_L86(resolved) ==
    /\ actor_pc = "L86"
    /\ IF resolved
         THEN actor_pc' = "L88" /\ UNCHANGED ct_ret
         ELSE actor_pc' = "idle" /\ ct_ret' = "False"
    /\ UNCHANGED <<prog_vars, time_position, mailbox, md_vars, et_pc, env_vars,
                   hist_vars>>

\* Lines 88-103: player.load, player.play, set_appsrc, set_metadata,
\* future.get(); a spotify.Error of the player is caught at lines 104-106.
CT_L88(loaded) ==
    /\ UNCHANGED dec_pending
    /\ UNCHANGED <<stale, pending>>
    /\ actor_pc = "L88"
    /\ actor_pc' = "idle"
    /\ IF loaded
         THEN /\ player' = n_calls
              /\ player_seek' = -1
              /\ appsrc_set' = TRUE
              /\ sink' = <<>>
              /\ ct_ret' = "True"
         ELSE /\ ct_ret' = "False"
              /\ UNCHANGED <<player, player_seek, appsrc_set, sink>>
    /\ scen' = (IF /\ loaded /\ md_pc = "idle" /\ et_pc = "idle"
                    /\ ~seeking_event /\ push_audio_data_event
                    /\ mailbox = <<>> /\ held_buffers = <<>>
                    /\ buffer_timestamp = 0 /\ ~end_of_track_event
                 THEN [phase |-> "chunks", n |-> 0] ELSE ScenOff)
    /\ UNCHANGED <<prog_vars, time_position, mailbox, md_vars, et_pc,
                   n_calls, eot_fired, eos_pushed, life_unloads,
                   seeks_handled, last_acc, rejected, straddle>>

change_track ==
    \/ \E has_uri \in BOOLEAN : CT_L56(has_uri)
    \/ CT_L78
    \/ CT_L80
    \/ CT_L83
    \/ \E resolved \in BOOLEAN : CT_L86(resolved)
    \/ \E loaded \in BOOLEAN : CT_L88(loaded)

\* on_seek_data, lines 123-137: the actor takes the next forwarded seek
\* request; the first seek to 0 is skipped, any other clears the held buffers.
OSD_L123 ==
    /\ actor_pc = "idle"
    /\ mailbox # <<>>
    /\ mailbox' = Tail(mailbox)
    /\ seeks_handled' = seeks_handled + 1
    /\ IF Head(mailbox) = 0 /\ first_seek
         THEN /\ seeking_event' = FALSE
              /\ first_seek' = FALSE
              /\ actor_pc' = "idle"
              /\ UNCHANGED <<held_buffers, rejected, time_position,
                             stale, pending>>
         ELSE /\ held_buffers' = <<>>
              /\ rejected' = NoBuffer
              /\ stale' = InFlight
              /\ pending' = <<>>
              /\ time_position' = Head(mailbox)
              /\ actor_pc' = "L139"
              /\ UNCHANGED <<seeking_event, first_seek>>
    /\ UNCHANGED <<straddle, scen>>
    /\ UNCHANGED <<buffer_timestamp, push_audio_data_event, end_of_track_event,
                   events_connected, ct_ret, md_vars, et_pc, env_vars,
                   n_calls, eot_fired, eos_pushed,
                   life_unloads, last_acc>>

\* Lines 139-141: self._buffer_timestamp.set(millisecond_to_clocktime(...)).
OSD_L139 ==
    /\ UNCHANGED <<stale, pending>>
    /\ actor_pc = "L139"
    /\ buffer_timestamp' = millisecond_to_clocktime(time_position)
    /\ last_acc' = [kind |-> "seek",
                    ts |-> millisecond_to_clocktime(time_position), dur |-> 0]
    /\ actor_pc' = "L142"
    /\ UNCHANGED <<straddle, scen>>
    /\ UNCHANGED <<seeking_event, first_seek, push_audio_data_event,
                   end_of_track_event, events_connected, held_buffers,
                   time_position, mailbox, ct_ret, md_vars, et_pc, env_vars,
                   n_calls, eot_fired, eos_pushed,
                   life_unloads, seeks_handled, rejected>>

\* Line 142: self.backend._session.player.seek(time_position).
OSD_L142 ==
    /\ actor_pc = "L142"
    /\ player_seek' = time_position
    /\ time_position' = 0
    /\ actor_pc' = "idle"
    /\ dec_pending' = (IF player # 0 THEN dec_pending + 1 ELSE dec_pending)
    /\ UNCHANGED <<prog_vars, mailbox, ct_ret, md_vars, et_pc,
                   appsrc_set, sink, player, hist_vars>>

on_seek_data ==
    \/ OSD_L123
    \/ OSD_L139
    \/ OSD_L142

\* ---------------------------------------- GStreamer thread (the sink)
\* Lines 145-152.
need_data_callback ==
    /\ appsrc_set
    /\ push_audio_data_event' = TRUE
    /\ UNCHANGED <<buffer_timestamp, seeking_event, first_seek,
                   end_of_track_event, events_connected, held_buffers,
                   actor_vars, md_vars, et_pc, env_vars, hist_vars>>

\* Lines 155-158.
enough_data_callback ==
    /\ UNCHANGED <<stale, pending>>
    /\ appsrc_set
    /\ push_audio_data_event' = FALSE
    /\ scen' = ScenOff
    /\ UNCHANGED <<buffer_timestamp, seeking_event, first_seek,
                   end_of_track_event, events_connected, held_buffers,
                   actor_vars, md_vars, et_pc, env_vars, n_calls, eot_fired, eos_pushed, life_unloads,
                   seeks_handled, last_acc, rejected, straddle>>

\* Lines 161-165: set the seeking event, forward the request to the actor.
seek_data_callback(t) ==
    /\ UNCHANGED <<stale, pending>>
    /\ appsrc_set
    /\ n_calls < MaxCalls
    /\ n_calls' = n_calls + 1
    /\ seeking_event' = TRUE
    /\ mailbox' = Append(mailbox, t)
    /\ scen' = ScenOff
    /\ UNCHANGED straddle
    /\ UNCHANGED <<buffer_timestamp, first_seek, push_audio_data_event,
                   end_of_track_event, events_connected, held_buffers,
                   actor_pc, time_position, ct_ret, md_vars, et_pc, env_vars,
                   eot_fired, eos_pushed,
                   life_unloads, seeks_handled, last_acc, rejected>>

\* ET_L232 without the duplicate guard of lines 232-234.
ET_L232_NoGuard ==
    /\ UNCHANGED <<stale, pending>>
    /\ et_pc = "idle"
    /\ events_connected
    /\ appsrc_set
    /\ n_calls < MaxCalls
    /\ n_calls' = n_calls + 1
    /\ eot_fired' = eot_fired + 1
    /\ et_pc' = "L237"
    /\ scen' = (IF scen.phase = "chunks" THEN ScenOff ELSE scen)
    /\ UNCHANGED straddle
    /\ UNCHANGED <<prog_vars, actor_vars, md_vars, env_vars,
                   eos_pushed, life_unloads,
                   seeks_handled, last_acc, rejected>>

\* ------------------------------------------------ pyspotify event loop
\* end_of_track_callback, lines 229-234: the duplicate guard.
ET_L232 ==
    /\ UNCHANGED <<stale, pending>>
    /\ et_pc = "idle"
    /\ events_connected
    /\ appsrc_set
    /\ n_calls < MaxCalls
    /\ n_calls' = n_calls + 1
    /\ eot_fired' = eot_fired + 1
    /\ et_pc' = (IF end_of_track_event THEN "idle" ELSE "L237")
    /\ scen' = (IF scen.phase = "chunks" THEN ScenOff ELSE scen)
    /\ UNCHANGED straddle
    /\ UNCHANGED <<prog_vars, actor_vars, md_vars, env_vars,
                   eos_pushed, life_unloads,
                   seeks_handled, last_acc, rejected>>

\* Line 237: end_of_track_event.set().
ET_L237 ==
    /\ et_pc = "L237"
    /\ end_of_track_event' = TRUE
    /\ et_pc' = "L238"
    /\ UNCHANGED <<buffer_timestamp, seeking_event, first_seek,
                   push_audio_data_event, events_connected, held_buffers,
                   actor_vars, md_vars, env_vars, hist_vars>>

\* Line 238: audio_actor.emit_data(None), the end-of-stream.
ET_L238 ==
    /\ UNCHANGED dec_pending
    /\ UNCHANGED <<stale, pending>>
    /\ et_pc = "L238"
    /\ sink' = Append(sink, emit_data(EndOfStream, TRUE))
    /\ eos_pushed' = eos_pushed + 1
    /\ et_pc' = "L241"
    /\ scen' = (IF scen.phase = "ended" THEN [scen EXCEPT !.phase = "eos"]
                                        ELSE scen)
    /\ UNCHANGED straddle
    /\ UNCHANGED <<prog_vars, actor_vars, md_vars, appsrc_set, player,
                   player_seek,
                   n_calls, eot_fired, life_unloads,
                   seeks_handled, last_acc, rejected>>

\* Line 241: session.player.unload().
ET_L241 ==
    /\ UNCHANGED <<stale, pending>>
    /\ et_pc = "L241"
    /\ player' = 0
    /\ dec_pending' = 0
    /\ life_unloads' = life_unloads + 1
    /\ et_pc' = "idle"
    /\ UNCHANGED <<straddle, scen>>
    /\ UNCHANGED <<prog_vars, actor_vars, md_vars, appsrc_set, sink,
                   player_seek,
                   n_calls, eot_fired, eos_pushed,
                   seeks_handled, last_acc, rejected>>

end_of_track_callback ==
    \/ ET_L232
    \/ ET_L237
    \/ ET_L238
    \/ ET_L241

Next ==
    \/ music_delivery_callback
    \/ change_track
    \/ on_seek_data
    \/ need_data_callback
    \/ enough_data_callback
    \/ \E t \in SeekTargets : seek_data_callback(t)
    \/ end_of_track_callback

Spec == Init /\ [][Next]_vars

\* The same program with a decoder that answers every seek it has received
\* while its track is loaded, and with threads that are always scheduled
\* again: a delivery call, a handler of the actor and an end-of-track callback
\* that have begun run to their end, and the actor takes every message of
\* its mailbox. Calls from outside (a load, a seek request, a need-data or
\* enough-data signal, a chunk of audio, an end-of-track event) are not owed.
DeliverySteps ==
    \/ \E fmt \in BOOLEAN : MD_L191(fmt)
    \/ MD_L202
    \/ MD_L208
    \/ MD_L209
    \/ MD_L210
    \/ \E accepted \in BOOLEAN : MD_L211(accepted)
    \/ MD_L213
    \/ MD_L219
    \/ MD_L222

ActorSteps ==
    \/ CT_L78
    \/ CT_L80
    \/ CT_L83
    \/ \E resolved \in BOOLEAN : CT_L86(resolved)
    \/ \E loaded \in BOOLEAN : CT_L88(loaded)
    \/ on_seek_data

EventLoopSteps ==
    \/ ET_L237
    \/ ET_L238
    \/ ET_L241

NextLive ==
    \/ Next
    \/ MD_L182_Confirm

Fairness ==
    /\ WF_vars(MD_L182_Confirm)
    /\ WF_vars(DeliverySteps)
    /\ WF_vars(ActorSteps)
    /\ WF_vars(EventLoopSteps)

SpecLive == Init /\ [][NextLive]_vars /\ Fairness

\* ---------------------------------------------------------------- claims
\* The steps of a delivery call that read the seek flag and the gate.
DeliverySeekCheck == \E n \in FrameCounts : MD_L182(n)
DeliveryGateCheck == \E fmt \in BOOLEAN : MD_L191(fmt)
SinkBuffers == SelectSeq(sink, LAMBDA e : e.b # EndOfStream)

\* C1, as stated: a delivery made while the gate is closed hands nothing to
\* the sink and returns 0, whatever the state of the seeking event.
C1_ClosedGateReturnsZero ==
    [][ (~push_audio_data_event /\ (DeliverySeekCheck \/ DeliveryGateCheck))
          => /\ sink' = sink
             /\ md_pc' = "idle" => md_ret' = 0 ]_vars

\* C1, amended: a delivery made while the gate is closed hands nothing to the
\* sink, leaves the held buffers and the timestamp alone, and returns 0 unless
\* the seeking event is set, in which case it returns the chunk's frame count.
C1_ClosedGateNoPush ==
    [][ /\ (~push_audio_data_event /\ DeliverySeekCheck)
          => /\ UNCHANGED <<sink, held_buffers, buffer_timestamp>>
             /\ IF seeking_event
                  THEN md_pc' = "idle" /\ md_ret' = num_frames'
                  ELSE md_pc' = "L191"
        /\ (~push_audio_data_event /\ DeliveryGateCheck)
          => /\ UNCHANGED <<sink, held_buffers, buffer_timestamp>>
             /\ md_pc' = "idle" /\ md_ret' = 0 ]_vars

C1_Witness ==
    /\ md_pc = "idle" /\ md_exit = "gate" /\ md_ret = 0
    /\ num_frames = ChunkFrames
    /\ ~push_audio_data_event
    /\ held_buffers # <<>>

\* C2: once a freshly loaded track has delivered N non-empty chunks, one empty
\* terminal chunk and the end-of-track event, the sink has been handed exactly
\* N buffers before the end-of-stream, the first of them with timestamp 0.
C2_GaplessCount ==
    scen.phase = "eos"
      => /\ Len(SinkBuffers) = scen.n
         /\ SinkBuffers # <<>> /\ SinkBuffers[1].b.ts = 0

\* C3: in a track lifecycle (from one clear of the end-of-track event by
\* change_track to the next) that no firing straddles, the end-of-stream is
\* pushed and the player unloaded at most once, exactly once when the event
\* has fired, and a firing that finds the event set changes nothing.
C3_EndOfTrackOnce ==
    /\ [](~straddle
            => /\ eos_pushed <= 1 /\ life_unloads <= 1
               /\ (eot_fired >= 1 /\ et_pc = "idle")
                    => (eos_pushed = 1 /\ life_unloads = 1 /\ end_of_track_event))
    /\ [][ (ET_L232 /\ end_of_track_event)
             => /\ et_pc' = "idle"
                /\ UNCHANGED <<prog_vars, env_vars, eos_pushed, life_unloads>> ]_vars

C3_Witness ==
    /\ ~straddle /\ et_pc = "idle"
    /\ eot_fired = 2 /\ eos_pushed = 1 /\ life_unloads = 1
    /\ player = 0

\* C4: within one track and with no seek in between, the buffer a delivery
\* accepts is stamped 0 when it is the first since the load and otherwise with
\* the previous accepted buffer's timestamp plus its duration; a delivery that
\* returns 0 leaves the timestamp counter alone.
C4_ContiguousTimestamps ==
    [][ /\ MD_L222
          => /\ last_acc.kind = "load" => buffer_.ts = 0
             /\ last_acc.kind = "buf"
                  => buffer_.ts = last_acc.ts + last_acc.dur
        /\ ((DeliverySeekCheck \/ DeliveryGateCheck \/ MD_L219)
              /\ md_pc' = "idle" /\ md_ret' = 0)
          => buffer_timestamp' = buffer_timestamp ]_vars

\* C5, as stated: a chunk delivered while the seeking event is set reaches
\* neither the sink nor the held buffers, and the seeking event goes from set
\* to clear only by the delivery of an empty chunk.
C5_OnlyEmptyChunkClears ==
    [][ /\ (DeliverySeekCheck /\ seeking_event)
          => /\ md_pc' = "idle"
             /\ UNCHANGED <<sink, held_buffers, buffer_timestamp>>
        /\ (seeking_event /\ ~seeking_event') => MD_L182(0) ]_vars

\* C5, amended: a chunk delivered while the seeking event is set reaches
\* neither the sink nor the held buffers, and the seeking event goes from set
\* to clear only by the delivery of an empty chunk or by on_seek_data skipping
\* the first seek to position 0 of a track.
C5_SeekSuppression ==
    [][ /\ (DeliverySeekCheck /\ seeking_event)
          => /\ md_pc' = "idle"
             /\ UNCHANGED <<sink, held_buffers, buffer_timestamp>>
        /\ (seeking_event /\ ~seeking_event')
          => \/ MD_L182(0)
             \/ OSD_L123 /\ Head(mailbox) = 0 /\ first_seek ]_vars

C5_Witness ==
    /\ md_pc = "idle" /\ md_exit = "seek" /\ num_frames = 0
    /\ ~seeking_event
    /\ player_seek = SeekMs
    /\ held_buffers = <<>>

\* C6: while the first seek request of a track, to position 0, waits to be
\* handled, no delivery finds the seeking event set; handling it changes
\* neither the held buffers, nor the timestamp, nor the decoder's position;
\* a seek to 0 handled later in the track clears the held buffers and goes on
\* to set the timestamp and to call the decoder's seek.
FirstSeekPending ==
    /\ first_seek /\ seeks_handled = 0
    /\ mailbox = <<0>> /\ actor_pc = "idle"

C6_FirstSeekAbsorbed ==
    [][ /\ (DeliverySeekCheck /\ FirstSeekPending) => ~seeking_event
        /\ (OSD_L123 /\ FirstSeekPending)
          => /\ actor_pc' = "idle"
             /\ UNCHANGED <<held_buffers, buffer_timestamp, player_seek>>
        /\ (OSD_L123 /\ Head(mailbox) = 0 /\ ~first_seek)
          => held_buffers' = <<>> /\ actor_pc' = "L139" ]_vars

\* C7: when the sink refuses a held buffer, the delivery puts it back at the
\* front of the held buffers, returns 0 without keeping the new chunk and
\* without touching the timestamp, and the next buffer offered to the sink is
\* the refused one.
C7_BackpressureRoundTrip ==
    [][ /\ MD_L213
          => /\ held_buffers' # <<>> /\ Head(held_buffers') = buf
             /\ buffer_timestamp' = buffer_timestamp
        /\ (MD_L219 /\ consumed = "false")
          => /\ md_pc' = "idle" /\ md_ret' = 0
             /\ buffer_timestamp' = buffer_timestamp
             /\ \A i \in DOMAIN held_buffers' : held_buffers'[i] # buffer_
             /\ rejected # NoBuffer
                  => held_buffers' # <<>> /\ Head(held_buffers') = rejected
        /\ ((\E accepted \in BOOLEAN : MD_L211(accepted)) /\ rejected # NoBuffer)
          => buf = rejected ]_vars

C7_Witness ==
    /\ md_pc = "L211" /\ buf = rejected /\ rejected # NoBuffer
    /\ md_exit = "backpressure" /\ md_ret = 0

\* C8: a change_track that returns False leaves the held buffers empty, the
\* timestamp at 0 and the end-of-track event clear.
ChangeTrackFails ==
    \/ CT_L56(FALSE)
    \/ CT_L86(FALSE)
    \/ CT_L88(FALSE)

C8_FailedLoadIsReset ==
    [][ ChangeTrackFails
          => /\ ct_ret' = "False"
             /\ held_buffers' = <<>>
             /\ buffer_timestamp' = 0
             /\ ~end_of_track_event' ]_vars

\* C9: the first buffer accepted after on_seek_data has set the timestamp for
\* a seek to T ms is stamped with the clock time of T.
C9_SeekTimestamp ==
    [][ (MD_L222 /\ last_acc.kind = "seek") => buffer_.ts = last_acc.ts ]_vars

\* C10: on_seek_data skips a seek to 0 only when it is the first seek request
\* handled since the load, and every handled request consumes _first_seek.
C10_OnlyFirstSeekAbsorbed ==
    [][ OSD_L123
          => /\ (Head(mailbox) = 0 /\ first_seek) => seeks_handled = 0
             /\ ~first_seek'
             /\ seeks_handled >= 1
                  => held_buffers' = <<>> /\ actor_pc' = "L139" ]_vars

\* C11: when change_track has loaded the track, the five shared
\* objects have their initial values: the timestamp is 0, the gate is open,
\* the seeking event is clear, no buffer is held, the end-of-track event is
\* clear.
C11_LoadResetsAll ==
    [][ CT_L88(TRUE)
          => /\ buffer_timestamp' = 0
             /\ push_audio_data_event'
             /\ ~seeking_event'
             /\ held_buffers' = <<>>
             /\ ~end_of_track_event' ]_vars

\* C12, as stated: only line 78 of change_track makes the timestamp smaller.
C12_OnlyLoadDecreases ==
    [][ buffer_timestamp' < buffer_timestamp => CT_L78 ]_vars

\* C12, amended: the timestamp gets smaller only at line 78 of change_track
\* and at line 139 of on_seek_data, which sets it to the clock time of the
\* target whatever it was; an accepted delivery adds the duration of its
\* buffer to it, and no other step of a delivery writes it.
C12_DeliveryOnlyIncreases ==
    [][ /\ buffer_timestamp' < buffer_timestamp => CT_L78 \/ OSD_L139
        /\ OSD_L139
             => buffer_timestamp' = millisecond_to_clocktime(time_position)
        /\ MD_L222
             => /\ buffer_timestamp' = buffer_timestamp + buffer_.dur
                /\ buffer_timestamp' > buffer_timestamp
        /\ music_delivery_callback /\ ~MD_L222
             => UNCHANGED buffer_timestamp ]_vars

\* on_seek_data has set the timestamp to the clock time of SeekMs after two
\* chunks of this track were accepted, which had taken it beyond that.
C12_Witness ==
    /\ actor_pc = "L142"
    /\ time_position = SeekMs
    /\ buffer_timestamp = millisecond_to_clocktime(SeekMs)
    /\ SinkBuffers # <<>>
    /\ 2 * calculate_duration(ChunkFrames) > millisecond_to_clocktime(SeekMs)

\* C13: no buffer is handed to the sink while the gate is closed.
C13_NoPushWhileGateClosed ==
    [][ (\E accepted \in BOOLEAN : MD_L211(accepted))
          => push_audio_data_event ]_vars

\* C14: once on_seek_data or the reset of change_track has cleared the held
\* buffers and the handling of the seek is done, no buffer built before the
\* clear is in _held_buffers, and none is handed to the sink.
C14_NoStaleBuffer ==
    [][ /\ actor_pc' \notin {"L139", "L142"}
             => \A i \in DOMAIN held_buffers' : held_buffers'[i].id \notin stale'
        /\ (\E accepted \in BOOLEAN : MD_L211(accepted))
             => buf.id \notin stale ]_vars

\* C15: music_delivery_callback never ends in an exception.
C15_NoException ==
    md_exit \notin {"AssertionError", "IndexError", "UnboundLocalError"}

\* C16: a delivery that finds the seeking event set returns at the seek
\* check: an empty chunk clears the event and returns 0, a non-empty chunk
\* leaves it set and returns its frame count; the held buffers, the
\* timestamp, the gate and the sink are left as they were.
C16_SeekCheckTouchesNothingElse ==
    [][ (DeliverySeekCheck /\ seeking_event)
          => /\ md_pc' = "idle" /\ md_exit' = "seek"
             /\ md_ret' = num_frames'
             /\ seeking_event' = (num_frames' # 0)
             /\ UNCHANGED <<held_buffers, buffer_timestamp,
                            push_audio_data_event, sink>> ]_vars

\* A non-empty chunk was discarded at the seek check with the gate closed and
\* a buffer held: the frame count was returned and the event is still set.
C16_Witness ==
    /\ md_pc = "idle" /\ md_exit = "seek"
    /\ num_frames = ChunkFrames /\ md_ret = ChunkFrames
    /\ seeking_event
    /\ ~push_audio_data_event
    /\ held_buffers # <<>>

\* C17: when the decoder has received two seeks and confirmed neither, the
\* empty chunk that confirms the first leaves the seeking event set.
C17_ActiveUntilLatestConfirmed ==
    [][ (MD_L182(0) /\ seeking_event /\ dec_pending >= 2)
          => seeking_event' ]_vars

\* C18: whenever the seeking event is set, it is clear again later, so that
\* the seek check lets audio through again.
C18_SeekEventuallyCleared ==
    seeking_event ~> ~seeking_event

\* C19: for deliveries that no clear() of the held buffers (a track change or
\* a seek) interrupts, the buffer offered to the sink is always the oldest
\* one the pipeline accepted and the sink has not yet accepted, so the sink
\* accepts the buffers in the order the pipeline accepted them, each once and
\* none skipped; and when a delivery returns its frame count, the buffer it
\* built is the only held buffer.
C19_SinkTakesPrefixInOrder ==
    [][ /\ ((\E accepted \in BOOLEAN : MD_L211(accepted)) /\ buf.id \notin stale)
             => pending # <<>> /\ Head(pending) = buf.id
        /\ (MD_L222 /\ buffer_.id \notin stale)
             => /\ held_buffers' = <<buffer_>>
                /\ pending' = <<buffer_.id>>
                /\ md_ret' = num_frames ]_vars

\* A delivery returned its frame count after the sink refused the held buffer
\* once and accepted it when it was offered again: one buffer is held.
C19_Witness ==
    /\ md_pc = "idle" /\ md_exit = "accepted"
    /\ stale = {}
    /\ Len(sink) = 2
    /\ sink[1].b = sink[2].b /\ ~sink[1].ok /\ sink[2].ok
    /\ Len(held_buffers) = 1
    /\ held_buffers[1].id > sink[2].b.id

\* C20: an end-of-track event that fires again for a track that has ended and
\* been unloaded, while change_track for the next track has cleared the
\* end-of-track event and not yet loaded that track, is ignored: it goes on
\* neither to the end-of-stream of line 238 nor to the unload of line 241.
C20_LateEndOfTrackIgnored ==
    [][ (ET_L232 /\ player = 0 /\ actor_pc \in {"L83", "L86", "L88"})
          => et_pc' = "idle" ]_vars
====
